---- MODULE Spec2Model ----
(***************************************************************************)
(* Query pipeline of the chat backend: POST /chat/query in its plain and   *)
(* its streaming (server-sent events) form, the provider client with its   *)
(* two backends, title generation and the chat store.  Spec and FairSpec   *)
(* follow one query request; UnitSpec calls the service functions on their *)
(* own; StoreSpec calls the store functions and the lookup route.          *)
(*                                                                         *)
(* Text is a sequence of symbols.  A JSON / Python value that may be a     *)
(* string, null (None) or absent is a record [tag, s].                     *)
(*                                                                         *)
(* The pipeline is synchronous code: it runs inside one callback of the    *)
(* asyncio event loop, so while `running` names its task no other task is  *)
(* stepped.  `ready` is the loop's FIFO of callbacks.                      *)
(***************************************************************************)
EXTENDS Integers, Sequences, FiniteSets, TLC

\* ------------------------------------------------------------------ bounds

\* Lines a provider stream delivers at most before it ends or breaks.
MaxLines == 3

\* Entries a search reply carries at most when retrieve_context is called on its own.
MaxResults == 3

\* ------------------------------------------------------------------- text

Str(t) == [tag |-> "str", s |-> t]
Null == [tag |-> "null", s |-> <<>>]
Absent == [tag |-> "absent", s |-> <<>>]

IsStr(v) == v.tag = "str"

\* Python truthiness of a string-or-None value: `if content:`
Truthy(v) == v.tag = "str" /\ v.s # <<>>

\* dict.get(key, default): the default only when the key is absent
Get(v, default) == IF v.tag = "absent" THEN default ELSE v

\* The queue's done signal, "__DONE__"
DONE == <<"__DONE__">>

\* f"Error: {x}"
ErrorText(x) == <<"Error: ", x>>

\* str.startswith("Error: ")
StartsWithError(t) == Len(t) >= 1 /\ t[1] = "Error: "

UNTITLED == <<"Untitled Chat">>
NO_CONTENT == <<"No content in response">>
NO_VALID == <<"No valid response content received">>

\* content[len(last_response):]
Slice(content, n) == SubSeq(content, n + 1, Len(content))

IsPrefix(p, t) == Len(p) <= Len(t) /\ SubSeq(t, 1, Len(p)) = p

RECURSIVE Concat(_)
Concat(ss) == IF ss = <<>> THEN <<>> ELSE Head(ss) \o Concat(Tail(ss))

\* ------------------------------------------------------------ input domains

\* Content fragments a provider sends; a provider may also send the very text
\* of the done signal
Fragments == {<<"a">>, <<"b">>, DONE}

\* Values of the content field of a streamed line or a reply body
ContentValues == {Str(f) : f \in Fragments} \cup {Str(<<>>), Null, Absent}

\* One line of response.iter_lines(): a blank keep-alive, the "data: [DONE]"
\* line, a line that is not JSON, or a JSON object carrying `content` under
\*   delta    {"choices":[{"delta":{"content": c}}]}
\*   text     {"choices":[{"text": c}]}
\*   response {"response": c}
\*   none     a JSON object with none of these
Blank == [kind |-> "blank", field |-> "none", content |-> Absent]
DoneLine == [kind |-> "done", field |-> "none", content |-> Absent]
BadJson == [kind |-> "badjson", field |-> "none", content |-> Absent]
JsonLine(f, c) == [kind |-> "json", field |-> f, content |-> c]

Lines ==
  {Blank, DoneLine, BadJson, JsonLine("none", Absent)}
    \cup {JsonLine("delta", c) : c \in ContentValues}
    \cup {JsonLine(f, c) : f \in {"text", "response"}, c \in ContentValues \ {Absent}}

\* A non-streaming reply body: not JSON, or a JSON object carrying `content` under
\*   message  {"choices":[{"message":{"content": c}}]}
\*   delta    {"choices":[{"delta":{...}}]}        (choices, but no message)
\*   response {"response": c}
\*   none     a JSON object with neither choices nor response
Bodies ==
  {BadJson, JsonLine("none", Absent), JsonLine("delta", Absent)}
    \cup {JsonLine("message", c) : c \in {Str(<<"a">>), Null, Absent}}
    \cup {JsonLine("response", c) : c \in {Str(<<"a">>), Str(<<>>), Null}}

\* Bodies of the title reply: the title text may carry surrounding blanks
TitleBodies ==
  {BadJson, JsonLine("none", Absent), JsonLine("delta", Absent)}
    \cup {JsonLine(f, c) : f \in {"message", "response"},
                           c \in {Str(<<" ", "t", " ">>), Null}}
    \cup {JsonLine("message", Absent)}

\* Outcome of opening an HTTP request: the connection fails, the status is not a
\* success, or the status is 200
OpenOutcomes == {"conn_error", "bad_status", "ok"}

\* Request.provider is a plain string (app/schemas/chat.py): any value is accepted
ProviderNames == {"Digital Ocean", "Ollama", "OpenAI"}

Queries == {<<"q">>}

\* ------------------------------------------------------- provider client

\* LLMProvider, as ChatService.process_query derives it from the string
DIGITAL_OCEAN == "Digital Ocean"
OLLAMA == "Ollama"

ProviderOf(llm_provider) ==
  IF llm_provider = "Digital Ocean" THEN DIGITAL_OCEAN ELSE OLLAMA

\* `if content: full_response += content; stream_callback(full_response)`
\* called: whether stream_callback is invoked; arg: the value it is given.
AccumulateNoGuard(full_response, content) ==
  LET new == full_response \o content.s
  IN  [full_response |-> new, called |-> IsStr(content), arg |-> new]

AccumulateFragment(full_response, content) ==
  IF Truthy(content)
    THEN [full_response |-> full_response \o content.s, called |-> TRUE,
          arg |-> content.s]
    ELSE [full_response |-> full_response, called |-> FALSE, arg |-> <<>>]

Accumulate(full_response, content) ==
  IF Truthy(content)
    THEN LET new == full_response \o content.s
         IN  [full_response |-> new, called |-> TRUE, arg |-> new]
    ELSE [full_response |-> full_response, called |-> FALSE, arg |-> <<>>]

\* The content a Digital Ocean stream line yields, Null when the line is skipped:
\* blank lines, "[DONE]", lines that are not JSON, objects without choices, and
\* choices with neither delta nor text
DeltaContentDO(line) ==
  IF line.kind # "json" THEN Null
  ELSE IF line.field = "delta" THEN Get(line.content, Str(<<>>))
  ELSE IF line.field = "text" THEN Get(line.content, Str(<<>>))
  ELSE Null

\* One iteration of `for line in response.iter_lines()` (Digital Ocean)
HandleLineDO(full_response, line) ==
  Accumulate(full_response, DeltaContentDO(line))

\* The content an Ollama stream line yields: "[DONE]" is not JSON there
DeltaContentOllama(line) ==
  IF line.kind # "json" THEN Null
  ELSE IF line.field = "response" THEN Get(line.content, Str(<<>>))
  ELSE Null

\* One iteration of `for line in response.iter_lines()` (Ollama)
HandleLineOllamaReset(full_response, line) ==
  IF line.kind # "json"
    THEN [full_response |-> <<>>, called |-> FALSE, arg |-> <<>>]
    ELSE Accumulate(full_response, DeltaContentOllama(line))

HandleLineOllama(full_response, line) ==
  Accumulate(full_response, DeltaContentOllama(line))

HandleLine(provider, full_response, line) ==
  IF provider = DIGITAL_OCEAN
    THEN HandleLineDO(full_response, line)
    ELSE HandleLineOllama(full_response, line)

\* `for line in response.iter_lines()` over a whole stream that ends normally:
\* the running total after each line, whether the callback was invoked for it,
\* and the text returned
RECURSIVE HandleLines(_, _, _)
HandleLines(backend, full_response, lines) ==
  IF lines = <<>>
    THEN [totals |-> <<>>, called |-> <<>>, returned |-> full_response]
    ELSE LET r == HandleLine(backend, full_response, Head(lines))
             rest == HandleLines(backend, r.full_response, Tail(lines))
         IN  [totals |-> <<r.full_response>> \o rest.totals,
              called |-> <<r.called>> \o rest.called,
              returned |-> rest.returned]

\* Whether the line carries a non-empty content fragment for this backend
CarriesContent(provider, line) ==
  Truthy(IF provider = DIGITAL_OCEAN THEN DeltaContentDO(line)
                                     ELSE DeltaContentOllama(line))

\* What the streaming handlers return when the stream is not read to its end:
\* the initial response failed, or iter_lines raised after some lines
StreamFailureDO(outcome) ==
  CASE outcome = "conn_error" -> ErrorText("connection")
    [] outcome = "bad_status" -> ErrorText("500")
    [] outcome = "broken" -> ErrorText("stream broken")

StreamFailureOllama(outcome) ==
  CASE outcome = "conn_error" -> ErrorText("connection")
    [] outcome = "bad_status" -> ErrorText("500 Server Error")
    [] outcome = "broken" -> ErrorText("stream broken")

StreamFailure(provider, outcome) ==
  IF provider = DIGITAL_OCEAN THEN StreamFailureDO(outcome)
                              ELSE StreamFailureOllama(outcome)

\* _handle_normal_response: the value returned for a reply with status 200
NormalBodyDO(body) ==
  IF body.kind # "json" THEN Str(ErrorText("json"))
  ELSE IF body.field = "message" THEN Get(body.content, Str(NO_CONTENT))
  ELSE IF body.field \in {"delta", "text"} THEN Str(NO_CONTENT)
  ELSE Str(NO_VALID)

\* _handle_ollama_normal_response, inside generate_ollama_response's try
NormalBodyOllama(body) ==
  IF body.kind # "json" THEN Str(ErrorText("json"))
  ELSE IF body.field = "response" THEN Get(body.content, Str(<<>>))
  ELSE Str(<<>>)

\* generate_response with stream_callback = None
NormalResponse(provider, outcome, body) ==
  IF outcome # "ok" THEN Str(StreamFailure(provider, outcome))
  ELSE IF provider = DIGITAL_OCEAN THEN NormalBodyDO(body)
  ELSE NormalBodyOllama(body)

\* str.strip() over the blank symbol
RECURSIVE LStrip(_)
LStrip(t) == IF t # <<>> /\ Head(t) = " " THEN LStrip(Tail(t)) ELSE t

RECURSIVE RStrip(_)
RStrip(t) ==
  IF t # <<>> /\ t[Len(t)] = " " THEN RStrip(SubSeq(t, 1, Len(t) - 1)) ELSE t

Strip(t) == RStrip(LStrip(t))

Returned(t) == [raised |-> FALSE, title |-> t]
Raised == [raised |-> TRUE, title |-> <<>>]

\* generate_chat_title: only requests.RequestException is caught
TitleDO(outcome, body) ==
  IF outcome # "ok" THEN Returned(UNTITLED)
  ELSE IF body.kind # "json" THEN Returned(UNTITLED)
  ELSE IF body.field # "message" THEN Raised
  ELSE IF ~IsStr(body.content) THEN Raised
  ELSE Returned(Strip(body.content.s))

TitleOllama(outcome, body) ==
  IF outcome # "ok" THEN Returned(UNTITLED)
  ELSE IF body.kind # "json" THEN Returned(UNTITLED)
  ELSE IF body.field # "response" THEN Returned(UNTITLED)
  ELSE IF ~IsStr(body.content) THEN Raised
  ELSE Returned(Strip(body.content.s))

generate_chat_title(provider, outcome, body) ==
  IF provider = DIGITAL_OCEAN THEN TitleDO(outcome, body)
                              ELSE TitleOllama(outcome, body)

\* ------------------------------------------------------- embedding client

\* The document filter of a request: None, "", the sentinel "all", or a document id
FileIds == {Null, Str(<<>>), Str(<<"all">>), Str(<<"All">>), Str(<<"doc1">>)}

\* context_limit values a caller may pass to search_embeddings
Limits == {1, 3, 10}

\* filter_metadata = {"active": True}; `if file_id and file_id != "all"` adds file_id
FilterMetadataNoSentinel(file_id) ==
  [active |-> TRUE, file_id |-> IF Truthy(file_id) THEN file_id ELSE Absent]

FilterMetadata(file_id) ==
  [active |-> TRUE,
   file_id |-> IF Truthy(file_id) /\ file_id.s # <<"all">> THEN file_id ELSE Absent]

\* search_payload of search_embeddings(query, limit, file_id)
SearchPayload(q, limit, file_id) ==
  [query |-> q, limit |-> limit, filter_metadata |-> FilterMetadata(file_id)]

\* One entry of the search reply's "results".  A metadata dict is written as a
\* text, the empty dict as the empty text.
Entry(id, score, metadata, text) ==
  [id |-> id, score |-> score, metadata |-> metadata, text |-> text]

\* The value under "results": a list of entries, null, absent, or some other
\* JSON value that is neither (a non-empty string, an object, a number)
ResultsList(items) == [tag |-> "list", items |-> items]
ResultsNull == [tag |-> "null", items |-> <<>>]
ResultsAbsent == [tag |-> "absent", items |-> <<>>]
ResultsOther == [tag |-> "other", items |-> <<>>]

\* What the search request comes back with.  kind:
\*   conn_error, bad_status, badjson   requests raises: proxy_post_request
\*                                     returns {"error": ...}
\*   not_object                        the body is JSON but not an object
\*   json                              a JSON object, `results` as given
SearchFailure(kind) == [kind |-> kind, results |-> ResultsAbsent]
SearchBody(results) == [kind |-> "json", results |-> results]

GoodEntry == Entry(Str(<<"d1">>), Str(<<"0.9">>), Str(<<"m">>), Str(<<"x">>))

SearchEntries ==
  { GoodEntry,
    Entry(Str(<<"d2">>), Str(<<"0.5">>), Absent, Absent),
    Entry(Str(<<"d3">>), Str(<<"0.1">>), Str(<<"m">>), Str(<<>>)),
    Entry(Str(<<"d4">>), Str(<<"0.7">>), Absent, Str(<<"y">>)),
    Entry(Str(<<"d5">>), Str(<<"0.3">>), Absent, Null),
    Entry(Absent, Str(<<"0.9">>), Absent, Str(<<"x">>)) }

FailedReplies ==
  {SearchFailure(k) : k \in {"conn_error", "bad_status", "badjson", "not_object"}}
    \cup {SearchBody(r) : r \in {ResultsAbsent, ResultsNull, ResultsOther}}

\* Replies of the search request within a query request
SearchReplies ==
  FailedReplies \cup
  { SearchBody(ResultsList(<<>>)),
    SearchBody(ResultsList(<<GoodEntry>>)),
    SearchBody(ResultsList(
      <<Entry(Str(<<"d1">>), Str(<<"0.9">>), Absent, Absent),
        Entry(Str(<<"d2">>), Str(<<"0.5">>), Str(<<"m">>), Str(<<"y">>))>>)),
    SearchBody(ResultsList(<<Entry(Absent, Str(<<"0.9">>), Absent, Str(<<"x">>))>>)) }

\* Replies of the search request when retrieve_context is called on its own: every
\* list of at most MaxResults entries
AllSearchReplies ==
  FailedReplies \cup
  {SearchBody(ResultsList(l)) :
     l \in UNION {[1..n -> SearchEntries] : n \in 0..MaxResults}}

\* search_embeddings: result.get("results", []) inside `except Exception: return []`
search_embeddings(reply) ==
  IF reply.kind # "json" THEN ResultsList(<<>>)
  ELSE IF reply.results.tag = "absent" THEN ResultsList(<<>>)
  ELSE reply.results

\* source_info of one result: text = result.get("text", ""), id = result.get("id")
SourceInfoNoDefault(result) ==
  [id |-> Get(result.id, Null), score |-> Get(result.score, Null),
   metadata |-> Get(result.metadata, Str(<<>>)),
   text |-> result.text]

SourceInfo(result) ==
  [id |-> Get(result.id, Null), score |-> Get(result.score, Null),
   metadata |-> Get(result.metadata, Str(<<>>)),
   text |-> Get(result.text, Str(<<>>))]

RECURSIVE ContextTexts(_)
ContextTexts(results) ==
  IF results = <<>> THEN <<>>
  ELSE LET text == Get(Head(results).text, Str(<<>>))
       IN  (IF Truthy(text) THEN <<text.s>> ELSE <<>>) \o ContextTexts(Tail(results))

\* "\n\n".join(context_texts)
RECURSIVE Join(_)
Join(texts) ==
  IF texts = <<>> THEN <<>>
  ELSE IF Len(texts) = 1 THEN Head(texts)
  ELSE Head(texts) \o <<"\n\n">> \o Join(Tail(texts))

Retrieved(sources, context) == [raised |-> FALSE, sources |-> sources, context |-> context]

\* `for result in search_results: result.get(...)` on a value that is not a list
\* of objects: AttributeError or TypeError
RetrieveRaised == [raised |-> TRUE, sources |-> <<>>, context |-> <<>>]

\* retrieve_context: `if not search_results: return [], ""`
retrieve_context(reply) ==
  LET search_results == search_embeddings(reply)
  IN  IF search_results.tag = "null" \/ search_results = ResultsList(<<>>)
        THEN Retrieved(<<>>, <<>>)
      ELSE IF search_results.tag # "list" THEN RetrieveRaised
      ELSE Retrieved([i \in 1..Len(search_results.items) |->
                        SourceInfo(search_results.items[i])],
                     Join(ContextTexts(search_results.items)))

\* Source(**source): id, score and text are required, no field may be None
SourceValid(source) ==
  IsStr(source.id) /\ IsStr(source.score) /\ IsStr(source.metadata) /\ IsStr(source.text)

\* [Source(**source) for source in sources]
SourcesValid(sources) == \A i \in 1..Len(sources) : SourceValid(sources[i])

\* ChatHistory(query=..., response=..., sources=[Source(**s) ...], title=...)
\* validates: response is a required str
ChatHistoryValid(response, sources) == IsStr(response) /\ SourcesValid(sources)

\* -------------------------------------------------------------- chat store

\* Rows the table holds at most when the store functions are called on their own.
MaxRows == 2

\* A validated Source: every field holds a value of its type
Source(id, score, metadata, text) ==
  [id |-> id, score |-> score, metadata |-> metadata, text |-> text]

\* Source(**source) of a source_info that passed validation
SourceOf(source) ==
  Source(source.id.s, source.score.s, source.metadata.s, source.text.s)

\* ChatHistory; id 0 stands for None
ChatHistory(id, timestamp, q, response, sources, title) ==
  [id |-> id, timestamp |-> timestamp, query |-> q, response |-> response,
   sources |-> sources, title |-> title]

\* A JSON text is a sequence of tokens: punctuation and quoted strings
Punct(p) == [t |-> "punct", v |-> <<p>>]
Quoted(v) == [t |-> "string", v |-> v]

\* json.dumps of one s.dict(): the fields in declaration order
DumpSource(s) ==
  << Punct("{"),
     Quoted(<<"id">>), Quoted(s.id), Quoted(<<"score">>), Quoted(s.score),
     Quoted(<<"metadata">>), Quoted(s.metadata), Quoted(<<"text">>), Quoted(s.text),
     Punct("}") >>

\* json.dumps([s.dict() for s in chat.sources])
Dumps(sources) ==
  <<Punct("[")>> \o Concat([i \in 1..Len(sources) |-> DumpSource(sources[i])])
    \o <<Punct("]")>>

\* The value an object's tokens hold under a key: keys stand at the even places
ValueOf(obj, key) ==
  obj[(CHOOSE i \in {2, 4, 6, 8} : obj[i] = Quoted(<<key>>)) + 1].v

\* Source(**source) of one parsed object
LoadSource(obj) ==
  Source(ValueOf(obj, "id"), ValueOf(obj, "score"), ValueOf(obj, "metadata"),
         ValueOf(obj, "text"))

\* The objects of a JSON list, each running up to its closing brace
RECURSIVE LoadObjects(_)
LoadObjects(tokens) ==
  IF tokens = <<>> \/ Head(tokens) = Punct("]") THEN <<>>
  ELSE LET close == CHOOSE i \in 1..Len(tokens) :
                      /\ tokens[i] = Punct("}")
                      /\ \A j \in 1..(i - 1) : tokens[j] # Punct("}")
       IN  <<LoadSource(SubSeq(tokens, 1, close))>>
             \o LoadObjects(SubSeq(tokens, close + 1, Len(tokens)))

\* json.loads(model.sources) if model.sources else [], each entry through Source(**)
Loads(sources_json) ==
  IF sources_json = <<>> THEN <<>> ELSE LoadObjects(Tail(sources_json))

\* ChatHistoryModel(timestamp=..., ...) with the id the database assigns
ChatHistoryModel(id, chat) ==
  [id |-> id, timestamp |-> chat.timestamp, query |-> chat.query,
   response |-> chat.response, sources |-> Dumps(chat.sources), title |-> chat.title]

\* ChatHistory(id=model.id, ..., sources=[Source(**s) ...], title=model.title)
FromModel(model) ==
  ChatHistory(model.id, model.timestamp, model.query, model.response,
              Loads(model.sources), model.title)

\* The two implementations of the store: the functions of database/session.py and
\* the classmethods of DatabaseService
Impls == {"session", "DatabaseService"}

\* `with get_db() as db:` session.py's get_db is a @contextmanager;
\* DatabaseService.get_db is a bare generator function, so the with statement
\* raises TypeError before the body runs
SessionOpens(impl, db_ok) == impl = "session" /\ db_ok

StoreRaised == [raised |-> TRUE, id |-> 0, chats |-> <<>>]
StoreReturned(id, chats) == [raised |-> FALSE, id |-> id, chats |-> chats]

\* save_chat_to_db: the table after the call and what the call returns
save_chat_overwriting(impl, db_ok, tbl, chat) ==
  IF ~SessionOpens(impl, db_ok) THEN [table |-> tbl, out |-> StoreRaised]
  ELSE [table |-> <<ChatHistoryModel(1, chat)>>, out |-> StoreReturned(1, <<>>)]

save_chat_to_db(impl, db_ok, tbl, chat) ==
  IF ~SessionOpens(impl, db_ok) THEN [table |-> tbl, out |-> StoreRaised]
  ELSE [table |-> Append(tbl, ChatHistoryModel(Len(tbl) + 1, chat)),
        out |-> StoreReturned(Len(tbl) + 1, <<>>)]

\* get_chat_by_id: .filter(ChatHistoryModel.id == chat_id).first(); None is
\* returned as no chats
get_chat_by_id(impl, db_ok, tbl, id) ==
  IF ~SessionOpens(impl, db_ok) THEN StoreRaised
  ELSE IF \E i \in 1..Len(tbl) : tbl[i].id = id
    THEN StoreReturned(id, <<FromModel(tbl[CHOOSE i \in 1..Len(tbl) : tbl[i].id = id])>>)
    ELSE StoreReturned(0, <<>>)

\* Orders in which a query without ORDER BY may return n rows
RowOrders(n) == {f \in [1..n -> 1..n] : \A i, j \in 1..n : f[i] = f[j] => i = j}

\* load_chat_history_from_db: db.query(ChatHistoryModel).all(), the rows in the
\* order the database returns them
load_chat_history_from_db(impl, db_ok, tbl, order) ==
  IF ~SessionOpens(impl, db_ok) THEN StoreRaised
  ELSE StoreReturned(0, [i \in 1..Len(tbl) |-> FromModel(tbl[order[i]])])

\* Sources and chats handed to the store
S1 == Source(<<"d1">>, <<"0.9">>, <<"m">>, <<"x">>)
S2 == Source(<<"text">>, <<"0.5">>, <<>>, <<>>)

Chats ==
  { ChatHistory(0, <<"t1">>, <<"q">>, <<"r">>, <<>>, UNTITLED),
    ChatHistory(0, <<"t2">>, <<"q">>, <<"r">>, <<S1, S2>>, <<"t">>),
    ChatHistory(0, <<"t1">>, <<"q2">>, <<>>, <<S2>>, UNTITLED) }

\* Identifiers a lookup is made with
ChatIds == (0 - 1)..(MaxRows + 1)

\* ------------------------------------------------------------------ state

VARIABLES
  mode,           \* "none" | "normal" | "stream": the request being served
  query,          \* QueryRequest.query
  llm_provider,   \* QueryRequest.provider
  running,        \* the task the event loop is executing: "none" | "handler" | "bg" | "consumer"
  ready,          \* the event loop's FIFO of scheduled callbacks
  pc,             \* position of ChatService.process_query
  sources,        \* retrieve_context's sources
  context,        \* retrieve_context's context string
  full_response,  \* the streaming handler's running total
  nlines,         \* lines received from the provider stream
  fragments,      \* content fragments of the lines that carried one, in arrival order
  delivered,      \* values stream_callback was invoked with, in order
  opened,         \* outcome of opening the provider request ("none" before it)
  response,       \* what generate_response returned (a string or None)
  chat_title,     \* what generate_chat_title returned
  exc,            \* str(e) of the exception process_query raised
  table,          \* chat_history rows, in insertion order
  chat_id,        \* the id save_chat_to_db returned (0: none)
  queue,          \* asyncio.Queue of stream_response
  getter,         \* stream_response waits in queue.get() on an empty queue
  cpc,            \* position of stream_response
  last_response,  \* stream_response's last_response
  emitted,        \* events sent to the client, in order
  bg_done,        \* process_query_background has returned
  result,         \* the HTTP result of a non-streaming request
  call,           \* the last direct call of a service function or store route
  inserted        \* the chats save_chat_to_db has stored, in order

vars ==
  << mode, query, llm_provider, running, ready, pc, sources, context,
     full_response, nlines, fragments, delivered, opened, response, chat_title,
     exc, table, chat_id, queue, getter, cpc, last_response, emitted, bg_done,
     result, call, inserted >>

pipelineVars ==
  << pc, sources, context, full_response, nlines, fragments, delivered,
     opened, response, chat_title, exc, table, chat_id >>

requestVars == << mode, query, llm_provider >>

consumerVars == << queue, getter, cpc, last_response, emitted >>

NoResult == [status |-> 0, id |-> 0, response |-> <<>>, title |-> <<>>]

NoCall == [op |-> "none"]

Init ==
  /\ mode = "none"
  /\ query = <<>>
  /\ llm_provider = "Digital Ocean"
  /\ running = "none"
  /\ ready = <<>>
  /\ pc = "idle"
  /\ sources = <<>>
  /\ context = <<>>
  /\ full_response = <<>>
  /\ nlines = 0
  /\ fragments = <<>>
  /\ delivered = <<>>
  /\ opened = "none"
  /\ response = Null
  /\ chat_title = <<>>
  /\ exc = ""
  /\ table = <<>>
  /\ chat_id = 0
  /\ queue = <<>>
  /\ getter = FALSE
  /\ cpc = "idle"
  /\ last_response = <<>>
  /\ emitted = <<>>
  /\ bg_done = FALSE
  /\ result = NoResult
  /\ call = NoCall
  /\ inserted = <<>>

provider == ProviderOf(llm_provider)

\* Callbacks of the event loop
BgTask == [task |-> "bg", item |-> <<>>]
PutTask(content) == [task |-> "put", item |-> content]
ConsumerWakeup == [task |-> "consumer", item |-> <<>>]

\* An item of the queue: its text, and whether the producer put it as its done
\* signal (the consumer reads the text only)
Item(text, signal) == [text |-> text, signal |-> signal]

PipelineEnded == pc \in {"returned", "raised"}

\* ------------------------------------------------------ transport: requests

\* POST /chat/query without stream=true: the handler calls the pipeline inline
StartNormal(q, p) ==
  /\ mode = "none"
  /\ mode' = "normal" /\ query' = q /\ llm_provider' = p
  /\ running' = "handler"
  /\ pc' = "retrieve"
  /\ UNCHANGED << ready, sources, context, full_response, nlines, fragments,
                  delivered, opened, response, chat_title, exc, table, chat_id,
                  consumerVars, bg_done, result >>
  /\ UNCHANGED << call, inserted >>

\* POST /chat/query?stream=true: stream_response up to its first `await queue.get()`.
\* The queue is empty, so the consumer suspends with its getter registered.
StartStream(q, p) ==
  /\ mode = "none"
  /\ mode' = "stream" /\ query' = q /\ llm_provider' = p
  /\ ready' = <<BgTask>>
  /\ queue' = <<>>
  /\ getter' = TRUE
  /\ cpc' = "waiting"
  /\ last_response' = <<>>
  /\ UNCHANGED << running, pipelineVars, emitted, bg_done, result >>
  /\ UNCHANGED << call, inserted >>

\* ----------------------------------------------------------- the pipeline
\* ChatService.process_query: synchronous, inside the task named by `running`.

InPipeline == running \in {"handler", "bg"}

\* sources, context = EmbeddingService.retrieve_context(...)
Retrieve(reply) ==
  /\ InPipeline /\ pc = "retrieve"
  /\ LET r == retrieve_context(reply)
     IN  /\ sources' = r.sources
         /\ context' = r.context
         /\ IF r.raised THEN pc' = "raised" /\ exc' = "attribute"
                        ELSE pc' = "generate" /\ UNCHANGED exc
  /\ UNCHANGED << requestVars, running, ready, full_response, nlines, fragments,
                  delivered, opened, response, chat_title, table, chat_id,
                  consumerVars, bg_done, result >>
  /\ UNCHANGED << call, inserted >>

\* generate_response without a callback: one request, one reply
GenerateNormal(outcome, body) ==
  /\ InPipeline /\ pc = "generate" /\ mode = "normal"
  /\ response' = NormalResponse(provider, outcome, body)
  /\ pc' = "title"
  /\ opened' = outcome
  /\ UNCHANGED << requestVars, running, ready, sources, context, full_response,
                  nlines, fragments, delivered, chat_title, exc, table,
                  chat_id, consumerVars, bg_done, result >>
  /\ UNCHANGED << call, inserted >>

\* generate_response with a callback: requests.post(..., stream=True) and the
\* status check; a failure here returns the error string at once
OpenStream(outcome) ==
  /\ InPipeline /\ pc = "generate" /\ mode = "stream"
  /\ full_response' = <<>>
  /\ IF outcome = "ok"
       THEN pc' = "lines" /\ UNCHANGED response
       ELSE pc' = "title" /\ response' = Str(StreamFailure(provider, outcome))
  /\ opened' = outcome
  /\ UNCHANGED << requestVars, running, ready, sources, context, nlines,
                  fragments, delivered, chat_title, exc, table, chat_id,
                  consumerVars, bg_done, result >>
  /\ UNCHANGED << call, inserted >>

\* stream_callback(content): asyncio.create_task(queue.put(content)) schedules
\* the put; it runs when the loop next steps it
stream_callback(rdy, content) == Append(rdy, PutTask(content))

\* One line of the provider stream
RecvLine(line) ==
  /\ InPipeline /\ pc = "lines" /\ nlines < MaxLines
  /\ LET r == HandleLine(provider, full_response, line)
     IN  /\ full_response' = r.full_response
         /\ ready' = IF r.called THEN stream_callback(ready, r.arg) ELSE ready
         /\ delivered' = IF r.called THEN Append(delivered, r.arg) ELSE delivered
  /\ nlines' = nlines + 1
  /\ fragments' = IF CarriesContent(provider, line)
                    THEN Append(fragments, line.content.s) ELSE fragments
  /\ UNCHANGED << requestVars, running, pc, sources, context, opened, response,
                  chat_title, exc, table, chat_id, consumerVars, bg_done, result >>
  /\ UNCHANGED << call, inserted >>

\* The stream ends: `return full_response`
StreamEnd ==
  /\ InPipeline /\ pc = "lines"
  /\ response' = Str(full_response)
  /\ pc' = "title"
  /\ UNCHANGED << requestVars, running, ready, sources, context, full_response,
                  nlines, fragments, delivered, opened, chat_title, exc, table,
                  chat_id, consumerVars, bg_done, result >>
  /\ UNCHANGED << call, inserted >>

\* iter_lines raises (the connection breaks mid-stream): the outer except
\* returns f"Error: {str(e)}"
StreamBreak ==
  /\ InPipeline /\ pc = "lines"
  /\ response' = Str(StreamFailure(provider, "broken"))
  /\ pc' = "title"
  /\ UNCHANGED << requestVars, running, ready, sources, context, full_response,
                  nlines, fragments, delivered, opened, chat_title, exc, table,
                  chat_id, consumerVars, bg_done, result >>
  /\ UNCHANGED << call, inserted >>

\* chat_title = generate_chat_title(query, response, provider)
Title(outcome, body) ==
  /\ InPipeline /\ pc = "title"
  /\ LET t == generate_chat_title(provider, outcome, body)
     IN  IF t.raised
           THEN pc' = "raised" /\ exc' = "title" /\ UNCHANGED chat_title
           ELSE pc' = "save" /\ chat_title' = t.title /\ UNCHANGED exc
  /\ UNCHANGED << requestVars, running, ready, sources, context, full_response,
                  nlines, fragments, delivered, opened, response, table,
                  chat_id, consumerVars, bg_done, result >>
  /\ UNCHANGED << call, inserted >>

\* chat = ChatHistory(query=..., response=..., sources=[...], title=...)
NewChat ==
  ChatHistory(0, <<"now">>, query, response.s,
              [i \in 1..Len(sources) |-> SourceOf(sources[i])], chat_title)

\* chat = ChatHistory(...); chat_id = save_chat_to_db(chat)
Save(db_ok) ==
  /\ InPipeline /\ pc = "save"
  /\ IF ~SourcesValid(sources)
       THEN /\ pc' = "raised" /\ exc' = "source"
            /\ UNCHANGED << table, chat_id, inserted >>
       ELSE IF ~ChatHistoryValid(response, sources)
       THEN /\ pc' = "raised" /\ exc' = "validation"
            /\ UNCHANGED << table, chat_id, inserted >>
       ELSE LET r == save_chat_to_db("session", db_ok, table, NewChat)
            IN  IF r.out.raised
                  THEN /\ pc' = "raised" /\ exc' = "database"
                       /\ UNCHANGED << table, chat_id, inserted >>
                  ELSE /\ table' = r.table
                       /\ chat_id' = r.out.id
                       /\ inserted' = Append(inserted, NewChat)
                       /\ pc' = "returned"
                       /\ UNCHANGED exc
  /\ UNCHANGED << requestVars, running, ready, sources, context, full_response,
                  nlines, fragments, delivered, opened, response, chat_title,
                  consumerVars, bg_done, result >>
  /\ UNCHANGED call

\* ------------------------------------------------- transport: the handlers

\* The non-streaming route: `return response`, or HTTPException(500) when the
\* pipeline raised
HandlerFinish ==
  /\ running = "handler" /\ PipelineEnded
  /\ result' = IF pc = "returned"
                 THEN [status |-> 200, id |-> chat_id, response |-> response.s,
                       title |-> chat_title]
                 ELSE [status |-> 500, id |-> 0, response |-> <<>>, title |-> <<>>]
  /\ running' = "none"
  /\ UNCHANGED << requestVars, ready, pipelineVars, consumerVars, bg_done >>
  /\ UNCHANGED << call, inserted >>

\* The loop steps process_query_background: it enters the pipeline, which runs
\* to its end without an await
RunBackground ==
  /\ running = "none" /\ ready # <<>> /\ Head(ready).task = "bg"
  /\ ready' = Tail(ready)
  /\ running' = "bg"
  /\ pc' = "retrieve"
  /\ UNCHANGED << requestVars, sources, context, full_response, nlines,
                  fragments, delivered, opened, response, chat_title, exc, table,
                  chat_id, consumerVars, bg_done, result >>
  /\ UNCHANGED << call, inserted >>

\* Queue.put on the unbounded queue: put_nowait appends the item and wakes the
\* waiting getter, whose task is scheduled behind what is already ready
QueuePut(st, item) ==
  [queue |-> Append(st.queue, item),
   getter |-> FALSE,
   ready |-> IF st.getter THEN Append(st.ready, ConsumerWakeup) ELSE st.ready,
   cpc |-> IF st.getter THEN "woken" ELSE st.cpc]

RECURSIVE QueuePutAll(_, _)
QueuePutAll(st, items) ==
  IF items = <<>> THEN st ELSE QueuePutAll(QueuePut(st, Head(items)), Tail(items))

QueueState == [queue |-> queue, getter |-> getter, ready |-> ready, cpc |-> cpc]

\* What process_query_background puts once the pipeline has ended: the done
\* signal, preceded by the error text when the pipeline raised
BgItemsNoDoneOnError(raised, e) ==
  IF raised THEN <<Item(ErrorText(e), FALSE)>> ELSE <<Item(DONE, TRUE)>>

BgItems(raised, e) ==
  IF raised THEN <<Item(ErrorText(e), FALSE), Item(DONE, TRUE)>>
            ELSE <<Item(DONE, TRUE)>>

\* process_query_background after the pipeline: its puts do not suspend, so it
\* returns in the same step
BackgroundFinish ==
  /\ running = "bg" /\ PipelineEnded
  /\ LET st == QueuePutAll(QueueState, BgItems(pc = "raised", exc))
     IN  /\ queue' = st.queue
         /\ getter' = st.getter
         /\ ready' = st.ready
         /\ cpc' = st.cpc
  /\ bg_done' = TRUE
  /\ running' = "none"
  /\ UNCHANGED << requestVars, pipelineVars, last_response, emitted, result >>
  /\ UNCHANGED << call, inserted >>

\* The loop steps one task created by stream_callback: queue.put(content)
RunPut ==
  /\ running = "none" /\ ready # <<>> /\ Head(ready).task = "put"
  /\ LET st == QueuePut([queue |-> queue, getter |-> getter,
                         ready |-> Tail(ready), cpc |-> cpc],
                        Item(Head(ready).item, FALSE))
     IN  /\ queue' = st.queue
         /\ getter' = st.getter
         /\ ready' = st.ready
         /\ cpc' = st.cpc
  /\ UNCHANGED << requestVars, running, pipelineVars, last_response, emitted,
                  bg_done, result >>
  /\ UNCHANGED << call, inserted >>

\* The loop resumes stream_response
RunConsumer ==
  /\ running = "none" /\ ready # <<>> /\ Head(ready).task = "consumer"
  /\ ready' = Tail(ready)
  /\ running' = "consumer"
  /\ cpc' = "get"
  /\ UNCHANGED << requestVars, pipelineVars, queue, getter, last_response,
                  emitted, bg_done, result >>
  /\ UNCHANGED << call, inserted >>

\* `if content == "__DONE__"`
IsTerminal(content) == content = DONE

\* An event sent to the client; `ended` records whether the pipeline had
\* already ended when it was sent
Event(type, text) == [type |-> type, text |-> text, ended |-> PipelineEnded]

\* `break` after the terminal event
AfterTerminalNoBreak == "get"

AfterTerminal == "finished"

\* One turn of stream_response's loop, from `await queue.get()`.  On an empty
\* queue it registers a getter and suspends.  After a text event the send to the
\* client either completes at once or suspends the task (suspend).
ConsumerStep(suspend) ==
  /\ running = "consumer" /\ cpc = "get"
  /\ IF queue = <<>>
       THEN /\ getter' = TRUE
            /\ cpc' = "waiting"
            /\ running' = "none"
            /\ UNCHANGED << queue, last_response, emitted >>
       ELSE LET content == Head(queue).text
                new_content == Slice(content, Len(last_response))
            IN  /\ queue' = Tail(queue)
                /\ UNCHANGED getter
                /\ IF IsTerminal(content)
                     THEN /\ emitted' = Append(emitted, Event("done", content))
                          /\ cpc' = AfterTerminal
                          /\ running' = IF AfterTerminal = "finished"
                                          THEN "none" ELSE running
                          /\ UNCHANGED last_response
                     ELSE /\ last_response' = content
                          /\ emitted' = IF new_content # <<>>
                                          THEN Append(emitted, Event("text", new_content))
                                          ELSE emitted
                          /\ IF suspend /\ new_content # <<>>
                               THEN cpc' = "sending" /\ running' = "none"
                               ELSE cpc' = "get" /\ UNCHANGED running
  /\ UNCHANGED << requestVars, ready, pipelineVars, bg_done, result >>
  /\ UNCHANGED << call, inserted >>

\* The send to the client completes: the consumer is scheduled again
SendComplete ==
  /\ running = "none" /\ cpc = "sending"
  /\ ready' = Append(ready, ConsumerWakeup)
  /\ cpc' = "woken"
  /\ UNCHANGED << requestVars, running, pipelineVars, queue, getter,
                  last_response, emitted, bg_done, result >>
  /\ UNCHANGED << call, inserted >>

\* The client disconnects while stream_response is suspended: the response task
\* is cancelled (CancelledError is re-raised); nothing cancels the background task
ClientDisconnect ==
  /\ running = "none" /\ cpc \in {"waiting", "woken", "sending"}
  /\ cpc' = "cancelled"
  /\ getter' = FALSE
  /\ ready' = SelectSeq(ready, LAMBDA c : c.task # "consumer")
  /\ UNCHANGED << requestVars, running, pipelineVars, queue, last_response,
                  emitted, bg_done, result >>
  /\ UNCHANGED << call, inserted >>

\* ------------------------------------------------------------ specification

Progress ==
  \/ \E reply \in SearchReplies : Retrieve(reply)
  \/ \E outcome \in OpenOutcomes, body \in Bodies : GenerateNormal(outcome, body)
  \/ \E outcome \in OpenOutcomes : OpenStream(outcome)
  \/ \E line \in Lines : RecvLine(line)
  \/ StreamEnd
  \/ StreamBreak
  \/ \E outcome \in OpenOutcomes, body \in TitleBodies : Title(outcome, body)
  \/ \E db_ok \in BOOLEAN : Save(db_ok)
  \/ HandlerFinish
  \/ RunBackground
  \/ BackgroundFinish
  \/ RunPut
  \/ RunConsumer
  \/ \E suspend \in BOOLEAN : ConsumerStep(suspend)
  \/ SendComplete

Next ==
  \/ \E q \in Queries, p \in ProviderNames : StartNormal(q, p)
  \/ \E q \in Queries, p \in ProviderNames : StartStream(q, p)
  \/ ClientDisconnect
  \/ Progress

Spec == Init /\ [][Next]_vars

\* The event loop keeps stepping ready callbacks, synchronous code runs on, and
\* every upstream call returns or raises
FairSpec == Spec /\ WF_vars(Progress)

\* --------------------------------------------- service functions and store
\* The service functions and the store routes, each called on its own with inputs
\* drawn from the domains above, one call in a behaviour; `call` records the
\* inputs and what came back.

\* Everything but the chat table, the chats stored and the call record
unitFrame ==
  << mode, query, llm_provider, running, ready, pc, sources, context,
     full_response, nlines, fragments, delivered, opened, response, chat_title,
     exc, chat_id, queue, getter, cpc, last_response, emitted, bg_done, result >>

\* LLMService.generate_chat_title(query, response, provider)
CallTitle(p, outcome, body) ==
  /\ call = NoCall
  /\ call' = [op |-> "generate_chat_title",
              arg |-> [provider |-> p, outcome |-> outcome, body |-> body],
              out |-> generate_chat_title(p, outcome, body)]
  /\ UNCHANGED << unitFrame, table, inserted >>

\* EmbeddingService.retrieve_context(query, context_limit, selected_doc_id), with
\* the payload its search request carries and what search_embeddings returned
CallRetrieve(q, limit, file_id, reply) ==
  /\ call = NoCall
  /\ call' = [op |-> "retrieve_context",
              arg |-> [query |-> q, limit |-> limit, file_id |-> file_id,
                       reply |-> reply],
              payload |-> SearchPayload(q, limit, file_id),
              results |-> search_embeddings(reply),
              out |-> retrieve_context(reply)]
  /\ UNCHANGED << unitFrame, table, inserted >>

\* context_limit values a request body may carry
ContextLimits == {0 - 1, 0, 1, 3, 10, 11}

\* document_id values a request body may carry
DocumentIds == {<<>>, <<"all">>, <<"doc1">>}

\* QueryRequest: context_limit: int = Field(3, ge=1, le=10); document_id and
\* provider are plain strings
QueryRequestValid(context_limit, document_id, p) ==
  context_limit >= 1 /\ context_limit <= 10

\* The body of POST /chat/query is validated before the route's handler is
\* called: 422 without calling it when the body is not a QueryRequest
CallQueryRequest(context_limit, document_id, p) ==
  /\ call = NoCall
  /\ call' = [op |-> "QueryRequest",
              arg |-> [context_limit |-> context_limit, document_id |-> document_id,
                       provider |-> p],
              out |-> IF QueryRequestValid(context_limit, document_id, p)
                        THEN [status |-> 0, handler |-> TRUE]
                        ELSE [status |-> 422, handler |-> FALSE]]
  /\ UNCHANGED << unitFrame, table, inserted >>

\* Lines of a provider stream handled on its own
StreamLines ==
  { Blank, DoneLine, BadJson, JsonLine("none", Absent),
    JsonLine("delta", Str(<<"a">>)), JsonLine("delta", Null), JsonLine("delta", Absent),
    JsonLine("text", Str(<<"b">>)), JsonLine("response", Str(<<"a">>)),
    JsonLine("response", Str(<<"b">>)), JsonLine("response", Null) }

\* _handle_streaming_response / _handle_ollama_streaming_response over a stream
\* of status 200 that ends normally
CallStream(backend, lines) ==
  /\ call = NoCall
  /\ call' = [op |-> "stream",
              arg |-> [provider |-> backend, lines |-> lines],
              out |-> HandleLines(backend, <<>>, lines)]
  /\ UNCHANGED << unitFrame, table, inserted >>

\* generate_response with a callback, as one call: the text returned and the
\* contents the callback was called with, in order
GenerateStreaming(backend, open, lines, ending) ==
  IF open # "ok" THEN [response |-> StreamFailure(backend, open), contents |-> <<>>]
  ELSE LET h == HandleLines(backend, <<>>, lines)
           calls == SelectSeq([i \in 1..Len(lines) |->
                                 [called |-> h.called[i], total |-> h.totals[i]]],
                              LAMBDA c : c.called)
       IN  [response |-> IF ending = "end" THEN h.returned
                                           ELSE StreamFailure(backend, "broken"),
            contents |-> [i \in 1..Len(calls) |-> calls[i].total]]

PipelineRaised(exception, contents) ==
  [raised |-> TRUE, exc |-> exception, contents |-> contents,
   data |-> [id |-> 0, response |-> <<>>, title |-> <<>>]]

PipelineReturned(id, response_text, title, contents) ==
  [raised |-> FALSE, exc |-> "none", contents |-> contents,
   data |-> [id |-> id, response |-> response_text, title |-> title]]

\* LLMService.process_query(query, ..., stream_callback=stream_callback): the
\* four steps in order; the insert goes through DatabaseService
LLMService_process_query(a, tbl) ==
  LET r == retrieve_context(a.reply)
      g == GenerateStreaming(a.provider, a.open, a.lines, a.ending)
      t == generate_chat_title(a.provider, a.title_outcome, a.title_body)
      chat == ChatHistory(0, <<"now">>, a.query, g.response,
                          [i \in 1..Len(r.sources) |-> SourceOf(r.sources[i])], t.title)
      saved == save_chat_to_db("DatabaseService", a.db_ok, tbl, chat)
  IN  IF r.raised THEN PipelineRaised("attribute", <<>>)
      ELSE IF t.raised THEN PipelineRaised("title", g.contents)
      ELSE IF ~ChatHistoryValid(Str(g.response), r.sources)
        THEN PipelineRaised("validation", g.contents)
      ELSE IF saved.out.raised THEN PipelineRaised("database", g.contents)
      ELSE PipelineReturned(saved.out.id, g.response, t.title, g.contents)

\* event_generator's stream_callback(content): new_content = content[len(buffer):];
\* buffer = content; return new_content
delta_callback(buffer, content) ==
  [new_content |-> Slice(content, Len(buffer)), buffer |-> content]

\* The buffer after the callback was called with each of the contents, and the
\* fragments it returned to its callers
RECURSIVE DeltaCalls(_, _)
DeltaCalls(buffer, contents) ==
  IF contents = <<>> THEN [buffer |-> buffer, returned |-> <<>>]
  ELSE LET d == delta_callback(buffer, Head(contents))
           rest == DeltaCalls(d.buffer, Tail(contents))
       IN  [buffer |-> rest.buffer, returned |-> <<d.new_content>> \o rest.returned]

\* f"data: {json.dumps({...})}\n\n"
StatusEvent(status, data) == [status |-> status, data |-> data]
StartedEvent == StatusEvent("started", [id |-> 0, response |-> <<>>, title |-> <<>>])

\* Requests the streaming controller is run with: the replies of its outbound
\* calls and whether the database is reachable
StreamingRuns ==
  [ query : Queries,
    provider : {DIGITAL_OCEAN, OLLAMA},
    reply : { SearchBody(ResultsList(<<>>)), SearchBody(ResultsList(<<GoodEntry>>)),
              SearchBody(ResultsOther),
              SearchBody(ResultsList(<<Entry(Absent, Str(<<"0.9">>), Absent, Str(<<"x">>))>>)) },
    open : OpenOutcomes,
    lines : UNION {[1..n -> {JsonLine("delta", Str(<<"a">>)),
                             JsonLine("response", Str(<<"b">>)), BadJson}] :
                     n \in 0..MaxLines},
    ending : {"end", "broken"},
    title_outcome : {"ok"},
    title_body : {JsonLine("message", Str(<<" ", "t", " ">>)),
                  JsonLine("response", Str(<<" ", "t", " ">>)),
                  JsonLine("response", Null)},
    db_ok : BOOLEAN ]

\* LLMController.process_streaming_query: the response starts iterating
\* event_generator, which yields the "started" event and is suspended there
StartEventGenerator(a) ==
  /\ call = NoCall
  /\ call' = [op |-> "process_streaming_query", arg |-> a,
              state |-> "suspended", events |-> <<StartedEvent>>,
              buffer |-> <<>>, new_content |-> <<>>, exc |-> "none"]
  /\ UNCHANGED << unitFrame, table, inserted >>

\* event_generator is resumed: LLMService.process_query runs to its end inside
\* it, then the "complete" event is yielded; an exception leaves the generator
ResumeEventGenerator ==
  /\ call.op = "process_streaming_query"
  /\ call.state = "suspended"
  /\ LET r == LLMService_process_query(call.arg, table)
         d == DeltaCalls(<<>>, r.contents)
     IN  call' = [call EXCEPT
                    !.state = IF r.raised THEN "raised" ELSE "finished",
                    !.events = IF r.raised THEN @
                               ELSE Append(@, StatusEvent("complete", r.data)),
                    !.buffer = d.buffer,
                    !.new_content = d.returned,
                    !.exc = r.exc]
  /\ UNCHANGED << unitFrame, table, inserted >>

UnitNext ==
  \/ \E a \in StreamingRuns : StartEventGenerator(a)
  \/ ResumeEventGenerator
  \/ \E backend \in {DIGITAL_OCEAN, OLLAMA},
        lines \in UNION {[1..n -> StreamLines] : n \in 0..MaxLines} :
       CallStream(backend, lines)
  \/ \E context_limit \in ContextLimits, document_id \in DocumentIds,
        p \in ProviderNames : CallQueryRequest(context_limit, document_id, p)
  \/ \E q \in Queries, limit \in Limits, file_id \in FileIds,
        reply \in AllSearchReplies : CallRetrieve(q, limit, file_id, reply)
  \/ \E p \in {DIGITAL_OCEAN, OLLAMA}, outcome \in OpenOutcomes, body \in TitleBodies :
       CallTitle(p, outcome, body)

UnitSpec == Init /\ [][UnitNext]_vars

\* save_chat_to_db(chat), by either implementation
Insert(impl, chat, db_ok) ==
  /\ Len(table) < MaxRows
  /\ LET r == save_chat_to_db(impl, db_ok, table, chat)
     IN  /\ table' = r.table
         /\ inserted' = IF r.out.raised THEN inserted ELSE Append(inserted, chat)
         /\ call' = [op |-> "save_chat_to_db",
                     arg |-> [impl |-> impl, db_ok |-> db_ok, chat |-> chat],
                     out |-> r.out]
  /\ UNCHANGED unitFrame

\* get_chat_by_id(chat_id), by either implementation
Lookup(impl, id, db_ok) ==
  /\ call' = [op |-> "get_chat_by_id",
              arg |-> [impl |-> impl, db_ok |-> db_ok, id |-> id],
              out |-> get_chat_by_id(impl, db_ok, table, id)]
  /\ UNCHANGED << unitFrame, table, inserted >>

\* load_chat_history_from_db(), by either implementation
ListAll(impl, order, db_ok) ==
  /\ call' = [op |-> "load_chat_history_from_db",
              arg |-> [impl |-> impl, db_ok |-> db_ok],
              out |-> load_chat_history_from_db(impl, db_ok, table, order)]
  /\ UNCHANGED << unitFrame, table, inserted >>

\* The path parameter `chat_id: int` takes every integer
ChatIdAccepted(id) == id \in Int

\* GET /chat/history/{chat_id}: 404 when the store has no such chat, 500 when the
\* lookup raises; `lookup` tells whether the store was asked
get_chat_catch_all(id, db_ok, tbl) ==
  LET chat == get_chat_by_id("session", db_ok, tbl, id)
  IN  IF chat.raised \/ chat.chats = <<>>
        THEN [status |-> 500, lookup |-> TRUE, chats |-> <<>>]
        ELSE [status |-> 200, lookup |-> TRUE, chats |-> chat.chats]

get_chat(id, db_ok, tbl) ==
  IF ~ChatIdAccepted(id) THEN [status |-> 422, lookup |-> FALSE, chats |-> <<>>]
  ELSE LET chat == get_chat_by_id("session", db_ok, tbl, id)
       IN  IF chat.raised THEN [status |-> 500, lookup |-> TRUE, chats |-> <<>>]
           ELSE IF chat.chats = <<>> THEN [status |-> 404, lookup |-> TRUE, chats |-> <<>>]
           ELSE [status |-> 200, lookup |-> TRUE, chats |-> chat.chats]

GetChatRoute(id, db_ok) ==
  /\ call' = [op |-> "get_chat",
              arg |-> [id |-> id, db_ok |-> db_ok],
              out |-> get_chat(id, db_ok, table)]
  /\ UNCHANGED << unitFrame, table, inserted >>

StoreNext ==
  \/ \E impl \in Impls, chat \in Chats, db_ok \in BOOLEAN : Insert(impl, chat, db_ok)
  \/ \E impl \in Impls, id \in ChatIds, db_ok \in BOOLEAN : Lookup(impl, id, db_ok)
  \/ \E impl \in Impls, order \in RowOrders(Len(table)), db_ok \in BOOLEAN :
       ListAll(impl, order, db_ok)
  \/ \E id \in ChatIds, db_ok \in BOOLEAN : GetChatRoute(id, db_ok)

StoreSpec == Init /\ [][StoreNext]_vars

\* ------------------------------------------------------------------ claims

RECURSIVE CountDone(_)
CountDone(events) ==
  IF events = <<>> THEN 0
  ELSE (IF Head(events).type = "done" THEN 1 ELSE 0) + CountDone(Tail(events))

RECURSIVE CountSignals(_)
CountSignals(items) ==
  IF items = <<>> THEN 0
  ELSE (IF Head(items).signal THEN 1 ELSE 0) + CountSignals(Tail(items))

RECURSIVE TextOf(_)
TextOf(events) ==
  IF events = <<>> THEN <<>>
  ELSE (IF Head(events).type = "text" THEN Head(events).text ELSE <<>>)
         \o TextOf(Tail(events))

\* The text fragments sent to the client so far, concatenated
EmittedText == TextOf(emitted)

LastDelivered == IF delivered = <<>> THEN <<>> ELSE delivered[Len(delivered)]

NoPutPending == \A i \in 1..Len(ready) : ready[i].task # "put"

StreamTerminated ==
  /\ cpc = "finished"
  /\ emitted # <<>>
  /\ emitted[Len(emitted)].type = "done"

\* C1: in a streaming request the "__DONE__" event is sent to the client at most
\* once and nothing is sent after it; once process_query_background has returned,
\* whether the pipeline returned or raised, exactly one done signal has been put
\* (it is in the queue or has been sent); and a stream the consumer has ended
\* carries it exactly once, as its last event.
C1_DoneExactlyOnce ==
  /\ CountDone(emitted) <= 1
  /\ \A i \in 1..Len(emitted) : emitted[i].type = "done" => i = Len(emitted)
  /\ bg_done => CountSignals(queue) + CountDone(emitted) = 1
  /\ cpc = "finished" => CountDone(emitted) = 1 /\ StreamTerminated

\* A stream whose provider broke after a chunk had been delivered, ended by the marker
C1_Witness ==
  /\ StreamTerminated
  /\ delivered # <<>>
  /\ response = Str(StreamFailure(provider, "broken"))

\* C2: when the consumer stops at "__DONE__", every value the callback handed to
\* the queue has been dequeued: none is left in the queue and no put is pending.
C2_ContentBeforeDone ==
  cpc = "finished" => queue = <<>> /\ NoPutPending

\* C3: every cumulative update passed to the callback has been sent to the client
\* by the time the pipeline completes.
C3_EmittedBeforePipelineEnds ==
  (mode = "stream" /\ PipelineEnded /\ cpc # "cancelled")
    => EmittedText = LastDelivered

RequestFinished ==
  \/ mode = "normal" /\ result.status \in {200, 500}
  \/ mode = "stream" /\ (StreamTerminated \/ cpc = "cancelled")

\* C4: every query request that has started eventually ends: with a JSON body or
\* an HTTP error, or with an event stream closed by the completion marker (or
\* abandoned by the client), whatever the upstream calls return or raise.
C4_RequestEnds == (mode # "none") ~> RequestFinished

\* A stream closed by the marker although the pipeline raised
C4_Witness == mode = "stream" /\ StreamTerminated /\ pc = "raised"

\* C5: the text fragments sent before the completion marker, concatenated in
\* order, equal the response the pipeline persisted for the request.
C5_FragmentsMakeResponse ==
  (cpc = "finished" /\ chat_id # 0) => EmittedText = table[chat_id].response

\* C6: the values passed to the callback within one generate_response call form a
\* strict prefix chain: each is the previous one (the empty text before the
\* first) with a non-empty suffix appended.
C6_StrictPrefixChain ==
  \A i \in 1..Len(delivered) :
    LET prev == IF i = 1 THEN <<>> ELSE delivered[i - 1]
    IN  IsPrefix(prev, delivered[i]) /\ Len(prev) < Len(delivered[i])

\* Three values delivered by the Ollama backend
C6_Witness == Len(delivered) = 3 /\ provider = OLLAMA

\* C7: the persisted response of a streaming request equals the last value
\* delivered to the callback.
C7_PersistedIsLastDelivered ==
  (mode = "stream" /\ chat_id # 0 /\ delivered # <<>>)
    => table[chat_id].response = LastDelivered

\* C8: the callback is invoked exactly once per received line of the provider
\* stream, each time with the cumulative text.
C8_OncePerChunk ==
  /\ Len(delivered) = nlines
  /\ \A i \in 1..Len(delivered) : delivered[i] = Concat(SubSeq(fragments, 1, i))

CumulativePerContentChunk ==
  /\ Len(delivered) = Len(fragments)
  /\ \A i \in 1..Len(delivered) : delivered[i] = Concat(SubSeq(fragments, 1, i))

\* The callback is invoked only within the step that handles a received line, and
\* at most once in it
CallbackWithinLine ==
  delivered' # delivered
    => /\ nlines' = nlines + 1
       /\ Len(delivered') = Len(delivered) + 1
       /\ SubSeq(delivered', 1, Len(delivered)) = delivered

\* C8 (amended): the callback is invoked synchronously, exactly once per received
\* line that carries a non-empty content fragment and not at all for any other
\* line, each time with the concatenation of all fragments received so far.
C8_OncePerContentChunk ==
  []CumulativePerContentChunk /\ [][CallbackWithinLine]_vars

\* Two content lines and one line without content, on the Digital Ocean backend
C8_Witness ==
  /\ nlines = 3 /\ Len(delivered) = 2 /\ provider = DIGITAL_OCEAN
  /\ delivered[2] # fragments[2]

GenerateReturned ==
  pc \in {"title", "save", "returned"} \/ (pc = "raised" /\ exc # "attribute")

\* C9: generate_response returns a string in both modes and for both providers,
\* and the string begins with "Error: " whenever the request as a whole failed.
C9_AlwaysString ==
  GenerateReturned =>
    /\ IsStr(response)
    /\ opened \in {"conn_error", "bad_status"} => StartsWithError(response.s)

\* C10: when generate_response returned an "Error: " string and the store did not
\* fail, the pipeline returns normally, having inserted exactly one row whose
\* response is that string, and the result carries the row's id and the string.
C10_ErrorPersisted ==
  (PipelineEnded /\ IsStr(response) /\ StartsWithError(response.s)
     /\ exc # "database")
    => /\ pc = "returned"
       /\ Len(table) = 1 /\ chat_id = 1
       /\ table[chat_id].response = response.s
       /\ (mode = "normal" /\ result.status # 0)
            => (result.status = 200 /\ result.id = chat_id
                /\ result.response = response.s)

\* C11: when the insert into the chat store fails, a non-streaming request ends
\* with HTTP 500, and a streaming request sends the client an error event, of a
\* kind other than the text events that carry the answer, before the stream is
\* terminated.
C11_InsertFailureSurfaced ==
  exc = "database" =>
    /\ (mode = "normal" /\ result.status # 0) => result.status = 500
    /\ (mode = "stream" /\ StreamTerminated)
         => \E i \in 1..Len(emitted) : emitted[i].type \notin {"text", "done"}

\* The title request failed: no reply, a status that is not a success, a body that
\* is not JSON, or a reply without the field the title is read from
TitleRequestFailed(arg) ==
  \/ arg.outcome # "ok"
  \/ arg.body.kind # "json"
  \/ arg.body.field # (IF arg.provider = DIGITAL_OCEAN THEN "message" ELSE "response")
  \/ arg.body.content = Absent

\* C12: generate_chat_title returns "Untitled Chat" and does not raise for every
\* failure of the title request, on both providers: a transport error, a
\* non-success status, a malformed reply or a reply without the expected field.
C12_TitleFallback ==
  (call.op = "generate_chat_title" /\ TitleRequestFailed(call.arg))
    => call.out = Returned(UNTITLED)

\* C13: search_embeddings does not raise; on a network error, a non-2xx status or
\* a malformed payload it returns an empty sequence and retrieve_context then
\* returns ([], ""); the same when the search has zero results.
C13_SearchFailureIsEmpty ==
  (call.op = "retrieve_context"
     /\ call.arg.reply \in FailedReplies \cup {SearchBody(ResultsList(<<>>))})
    => /\ call.results = ResultsList(<<>>)
       /\ call.out = Retrieved(<<>>, <<>>)

\* C14: no outcome of the embedding search aborts the pipeline: whether the search
\* failed, found nothing or returned entries that omit id, score or text, the
\* pipeline does not raise while building the sources of the ChatHistory.
C14_SearchNeverAborts ==
  PipelineEnded => exc # "source"

\* The non-empty texts of the entries, in order
NonEmptyTexts(items) ==
  LET withText == SelectSeq(items, LAMBDA e : IsStr(e.text) /\ e.text.s # <<>>)
  IN  [i \in 1..Len(withText) |-> withText[i].text.s]

\* The texts with "\n\n" between neighbours
Separated(texts) ==
  Concat([i \in 1..Len(texts) |-> IF i = 1 THEN texts[i] ELSE <<"\n\n">> \o texts[i]])

\* C15: for every non-empty result list retrieve_context returns one source per
\* result, in the same order (an entry with empty or missing text is kept, as a
\* source with text ""), and the context is the results' non-empty texts joined
\* by "\n\n" in result order.
C15_SourcesAndContext ==
  (call.op = "retrieve_context" /\ call.arg.reply.kind = "json"
     /\ call.arg.reply.results.tag = "list" /\ call.arg.reply.results.items # <<>>)
    => LET items == call.arg.reply.results.items
           out == call.out
       IN  /\ ~out.raised
           /\ Len(out.sources) = Len(items)
           /\ \A i \in 1..Len(items) :
                /\ out.sources[i].id = (IF items[i].id = Absent THEN Null ELSE items[i].id)
                /\ out.sources[i].score = items[i].score
                /\ items[i].text \in {Absent, Str(<<>>)} => out.sources[i].text = Str(<<>>)
                /\ IsStr(items[i].text) => out.sources[i].text = items[i].text
           /\ out.context = Separated(NonEmptyTexts(items))

\* Three results, the first without text: three sources, two texts in the context
C15_Witness ==
  /\ call.op = "retrieve_context"
  /\ call.arg.reply.kind = "json"
  /\ Len(call.arg.reply.results.items) = 3
  /\ call.arg.reply.results.items[1].text = Absent
  /\ Len(call.out.sources) = 3
  /\ call.out.sources[1].text = Str(<<>>)
  /\ call.out.context = <<"x", "\n\n", "y">>

\* C16: the search request always carries filter_metadata.active = true and the
\* caller's limit unchanged; it carries no file_id when the document filter is
\* "all", and for any other document filter value it carries file_id equal to
\* that value.
C16_FilterPassedThrough ==
  call.op = "retrieve_context" =>
    /\ call.payload.filter_metadata.active = TRUE
    /\ call.payload.limit = call.arg.limit
    /\ call.payload.filter_metadata.file_id =
         (IF call.arg.file_id = Str(<<"all">>) THEN Absent ELSE call.arg.file_id)

\* C16 (amended): the search request always carries filter_metadata.active = true
\* and the caller's limit unchanged; it carries no file_id when the document
\* filter is "all", empty or None, and for any other value it carries file_id
\* equal to that value.
C16_FilterUnlessAllOrEmpty ==
  call.op = "retrieve_context" =>
    /\ call.payload.filter_metadata.active = TRUE
    /\ call.payload.limit = call.arg.limit
    /\ call.payload.filter_metadata.file_id =
         (IF call.arg.file_id \in {Str(<<"all">>), Str(<<>>), Null}
            THEN Absent ELSE call.arg.file_id)

\* A search with the empty document filter and limit 10: no file_id is carried
C16_Witness ==
  /\ call.op = "retrieve_context"
  /\ call.arg.file_id = Str(<<>>)
  /\ call.arg.limit = 10
  /\ call.payload.limit = 10
  /\ call.payload.filter_metadata = [active |-> TRUE, file_id |-> Absent]

\* The pipeline has made an outbound call: the embedding search, the provider
\* request or the title request
OutboundCallMade == pc \notin {"idle", "retrieve"}

\* C17: a request whose provider is neither "Digital Ocean" nor "Ollama" is
\* rejected before any outbound call is made; it is never routed to a backend.
C17_UnknownProviderRejected ==
  (mode # "none" /\ llm_provider \notin {"Digital Ocean", "Ollama"})
    => ~OutboundCallMade

\* A request body whose context_limit is outside [1, 10] never reaches the handler
ContextLimitChecked ==
  (call.op = "QueryRequest" /\ call.arg.context_limit \notin 1..10)
    => ~call.out.handler /\ call.out.status = 422

\* C18: invalid input is rejected at the transport boundary: a context_limit
\* outside [1, 10] never reaches retrieve_context, and GET /chat/history/{id}
\* with a negative id never reaches the store lookup.
C18_NegativeIdRejected ==
  (call.op = "get_chat" /\ call.arg.id < 0) => ~call.out.lookup

\* The chat as the store returns it: the inserted chat with its id set
Stored(i) == [inserted[i] EXCEPT !.id = i]

\* C19: a chat round-trips through the store: insert(c) returns the new id, and
\* get(id) returns a ChatHistory with the same timestamp, query, response, title
\* and ordered sources (id, score, metadata, text), with id set.
C19_RoundTrip ==
  /\ (call.op = "save_chat_to_db" /\ call.arg.db_ok)
       => /\ ~call.out.raised
          /\ call.out.id = Len(inserted)
          /\ inserted[call.out.id] = call.arg.chat
  /\ (call.op = "get_chat_by_id" /\ call.arg.db_ok
        /\ call.arg.id \in 1..Len(inserted))
       => /\ ~call.out.raised
          /\ call.out.chats = <<Stored(call.arg.id)>>

\* C20: list_all returns every persisted chat exactly once, ordered by ascending
\* id, after any sequence of inserts.
C20_ListInInsertionOrder ==
  (call.op = "load_chat_history_from_db" /\ call.arg.db_ok
     /\ call.arg.impl = "session")
    => /\ ~call.out.raised
       /\ call.out.chats = [i \in 1..Len(inserted) |-> Stored(i)]

\* One step keeps every row in place and unchanged, and a lookup or a listing
\* leaves the table as it was
RowsKept ==
  /\ IsPrefix(table, table')
  /\ call'.op \in {"get_chat_by_id", "load_chat_history_from_db", "get_chat"}
       => table' = table

\* C21: the chat table is append-only: across any sequence of inserts, listings
\* and lookups every row ever inserted stays present with all of its fields
\* unchanged, and listings and lookups leave the table unchanged.
C21_AppendOnly == [][RowsKept]_vars

\* A listing made after two inserts, both rows in place
C21_Witness ==
  /\ call.op = "load_chat_history_from_db"
  /\ Len(table) = 2 /\ Len(inserted) = 2
  /\ table[1].id = 1 /\ table[2].id = 2

HasRow(id) == \E i \in 1..Len(table) : table[i].id = id

\* C22: GET /chat/history/{id} for an id that has no row answers 404 and never a
\* server error; 500 is answered only when the lookup itself raises, and an id
\* that has a row is answered 200.
C22_NotFoundIsNot500 ==
  call.op = "get_chat" =>
    /\ (call.arg.db_ok /\ ~HasRow(call.arg.id)) => call.out.status = 404
    /\ (call.arg.db_ok /\ HasRow(call.arg.id)) => call.out.status = 200
    /\ call.out.status = 500 => ~call.arg.db_ok

\* A lookup of id 3 in a table of two rows: 404
C22_Witness ==
  /\ call.op = "get_chat"
  /\ Len(table) = 2 /\ call.arg.id = 3 /\ call.arg.db_ok
  /\ call.out.status = 404

DoneEventFromSignal ==
  (emitted' # emitted /\ emitted'[Len(emitted')].type = "done")
    => (queue # <<>> /\ Head(queue).signal)

DoneEventsFromSignal == [][DoneEventFromSignal]_vars

\* The steps of process_query follow one another in the order retrieve_context,
\* generate_response, generate_chat_title, insert; none is entered twice; the
\* response is fixed once the title step starts; a row is inserted by the insert
\* step only
StepOrder ==
  /\ pc' # pc =>
       <<pc, pc'>> \in { <<"idle", "retrieve">>, <<"retrieve", "generate">>,
                         <<"retrieve", "raised">>, <<"generate", "title">>,
                         <<"generate", "lines">>, <<"lines", "title">>,
                         <<"title", "save">>, <<"title", "raised">>,
                         <<"save", "returned">>, <<"save", "raised">> }
  /\ pc \in {"title", "save", "returned", "raised"} => response' = response
  /\ table' # table => pc = "save" /\ pc' = "returned"

StepsInOrder == [][StepOrder]_vars

\* The insert step was performed: it returned an id or the database failed
InsertPerformed == pc = "returned" \/ (pc = "raised" /\ exc = "database")

\* C24: in both modes a request performs retrieve_context, generate_response,
\* generate_chat_title and insert, each exactly once: a pipeline that has ended
\* has performed its insert, and when it returned, the id it returned is the one
\* the insert assigned to the one row it added.
C24_EachStepOnce ==
  PipelineEnded =>
    /\ InsertPerformed
    /\ pc = "returned" =>
         /\ Len(table) = 1 /\ table[1].id = chat_id
         /\ table[1].response = response.s
         /\ (result.status = 200 => result.id = chat_id)

\* C25: when the client disconnects and stream_response is cancelled, the
\* background task of the request is cancelled too: it is not stepped afterwards
\* and does not run the pipeline (provider chunks, title, insert) to its end.
\* (The pipeline blocks the loop, so a cancellation is never processed while the
\* background task is in the middle of it.)
C25_BackgroundCancelled ==
  (cpc = "cancelled" /\ ~bg_done) => (running # "bg" /\ pc = "idle")

\* An outbound call of the pipeline is in progress: the embedding search, the
\* provider request or stream, or the title request
OutboundCallInProgress ==
  InPipeline /\ pc \in {"retrieve", "generate", "lines", "title"}

\* C26: while a request's outbound call is in progress, the other work of the
\* event loop can still make progress: a callback that is ready (the stream
\* consumer, a queued put) can be stepped.
C26_LoopNotStalled ==
  (OutboundCallInProgress /\ ready # <<>>)
    => ENABLED (RunPut \/ RunConsumer \/ RunBackground)

\* A line that is valid JSON and carries a string under the content field the
\* backend reads
WellFormed(backend, line) ==
  /\ line.kind = "json"
  /\ line.field \in (IF backend = DIGITAL_OCEAN THEN {"delta", "text"} ELSE {"response"})
  /\ IsStr(line.content)

\* The content fragments of the well-formed lines, in arrival order
WellFormedFragments(backend, lines) ==
  LET good == SelectSeq(lines, LAMBDA l : WellFormed(backend, l))
  IN  [i \in 1..Len(good) |-> good[i].content.s]

\* C27: in both streaming handlers a line that is not valid JSON or lacks the
\* expected content field is skipped: the callback is not invoked for it and the
\* running total stays as it was; processing goes on with the next line, and the
\* text returned at the normal end of the stream is the concatenation, in
\* arrival order, of the content fragments of the well-formed lines.
C27_MalformedLinesSkipped ==
  call.op = "stream" =>
    LET lines == call.arg.lines
        out == call.out
    IN  /\ Len(out.totals) = Len(lines)
        /\ \A i \in 1..Len(lines) :
             ~WellFormed(call.arg.provider, lines[i])
               => /\ ~out.called[i]
                  /\ out.totals[i] = (IF i = 1 THEN <<>> ELSE out.totals[i - 1])
        /\ out.returned = Concat(WellFormedFragments(call.arg.provider, lines))

\* A line that is not JSON between two content lines, on the Ollama backend
C27_Witness ==
  /\ call.op = "stream"
  /\ call.arg.provider = OLLAMA
  /\ call.arg.lines = <<JsonLine("response", Str(<<"a">>)), BadJson,
                        JsonLine("response", Str(<<"b">>))>>
  /\ call.out.called = <<TRUE, FALSE, TRUE>>
  /\ call.out.returned = <<"a", "b">>

\* Every step of the pipeline got what it needs: the search reply was usable,
\* the title request returned a title, the sources form a chat and the database
\* is reachable
StepsCanSucceed(a) ==
  /\ ~retrieve_context(a.reply).raised
  /\ ~generate_chat_title(a.provider, a.title_outcome, a.title_body).raised
  /\ SourcesValid(retrieve_context(a.reply).sources)
  /\ a.db_ok

EventGeneratorEnded ==
  call.op = "process_streaming_query" /\ call.state # "suspended"

OnlyStatusEvents ==
  EventGeneratorEnded =>
    /\ Head(call.events) = StartedEvent
    /\ Len(call.events) <= 2
    /\ \A i \in 1..Len(call.events) : call.events[i].status \in {"started", "complete"}
    /\ call.state = "raised" => call.events = <<StartedEvent>>

\* Fragments were computed by the callback and the stream still has one event
FragmentsComputedNotEmitted ==
  /\ EventGeneratorEnded
  /\ call.new_content = << <<"a">>, <<"a">> >>
  /\ call.buffer = <<"a", "a">>
  /\ call.events = <<StartedEvent>>

====
